---- MODULE Spec2Model ----
(***************************************************************************)
(* Model of pyro/distributions/triangular.py: the Triangular distribution. *)
(*                                                                         *)
(* Numbers.  A tensor element is an extended rational: a record            *)
(* [k, n, d] whose kind k is "fin" (the value n/d, in lowest terms, d > 0) *)
(* or one of the IEEE special values "pinf", "ninf", "nan" that a division *)
(* by zero or a logarithm of a non-positive number produces.  +, -, * and  *)
(* / are exact on the finite values.  torch.sqrt leaves the rationals, so  *)
(* it returns the representable value nearest the root; the representable  *)
(* values are the multiples of 1/SqrtScale.  torch.log is kept symbolic: a *)
(* log-domain value [k, n, d] of kind "fin" stands for log(n/d), and sums  *)
(* and differences of logarithms multiply and divide the arguments.        *)
(*                                                                         *)
(* Tensors.  A tensor is [shape, data]: shape <<>> is torch.Size() with one *)
(* element, shape <<n>> a one-dimensional tensor of n elements.            *)
(*                                                                         *)
(* Behaviours.  A caller constructs an instance and calls one method on    *)
(* it; the methods leave the instance unchanged, so a later call starts    *)
(* from the same instance.  expand is the branch taken when the base class *)
(* raises NotImplementedError.                                             *)
(***************************************************************************)
EXTENDS Integers, Sequences, FiniteSets, TLC

\* ---- bounds of the model -------------------------------------------------
MaxParam == 1
ValDen == 2
UDen == 4
SqrtScale == 8

\* the values of low, high and peak a caller passes
LowVals == (-1)..MaxParam
HighVals == 0..MaxParam
PeakVals == (-1)..MaxParam
\* the lengths of the one-dimensional tensors a caller passes
BatchLens == 1..2

\* ---- extended rationals --------------------------------------------------
Abs(i) == IF i < 0 THEN -i ELSE i

RECURSIVE Gcd(_, _)
Gcd(a, b) == IF b = 0 THEN a ELSE Gcd(b, a % b)

Fin(n, d) ==
    LET s == IF d < 0 THEN -1 ELSE 1
        g == Gcd(Abs(n), Abs(d))
    IN  [k |-> "fin", n |-> (s * n) \div g, d |-> (s * d) \div g]

Num(i) == [k |-> "fin", n |-> i, d |-> 1]
NaN == [k |-> "nan", n |-> 0, d |-> 1]
PInf == [k |-> "pinf", n |-> 0, d |-> 1]
NInf == [k |-> "ninf", n |-> 0, d |-> 1]

IsFin(x) == x.k = "fin"
Sign(x) == CASE x.k = "pinf" -> 1
             [] x.k = "ninf" -> -1
             [] x.k = "nan" -> 0
             [] OTHER -> IF x.n > 0 THEN 1 ELSE IF x.n < 0 THEN -1 ELSE 0
Signed(s) == IF s > 0 THEN PInf ELSE IF s < 0 THEN NInf ELSE NaN

Neg(x) == CASE x.k = "fin" -> Fin(-x.n, x.d)
            [] x.k = "pinf" -> NInf
            [] x.k = "ninf" -> PInf
            [] OTHER -> NaN

Add(x, y) ==
    CASE x.k = "nan" \/ y.k = "nan" -> NaN
      [] IsFin(x) /\ IsFin(y) -> Fin(x.n * y.d + y.n * x.d, x.d * y.d)
      [] IsFin(x) -> y
      [] IsFin(y) -> x
      [] OTHER -> IF x.k = y.k THEN x ELSE NaN

Sub(x, y) == Add(x, Neg(y))

Mul(x, y) ==
    CASE x.k = "nan" \/ y.k = "nan" -> NaN
      [] IsFin(x) /\ IsFin(y) -> Fin(x.n * y.n, x.d * y.d)
      [] OTHER -> Signed(Sign(x) * Sign(y))

Div(x, y) ==
    CASE x.k = "nan" \/ y.k = "nan" -> NaN
      [] IsFin(x) /\ IsFin(y) ->
            IF y.n = 0 THEN Signed(Sign(x)) ELSE Fin(x.n * y.d, x.d * y.n)
      [] IsFin(x) -> Num(0)
      [] IsFin(y) -> Signed(Sign(x) * (IF Sign(y) < 0 THEN -1 ELSE 1))
      [] OTHER -> NaN

Lt(x, y) ==
    CASE x.k = "nan" \/ y.k = "nan" -> FALSE
      [] IsFin(x) /\ IsFin(y) -> x.n * y.d < y.n * x.d
      [] OTHER -> x.k # y.k /\ (x.k = "ninf" \/ y.k = "pinf")

Le(x, y) ==
    CASE x.k = "nan" \/ y.k = "nan" -> FALSE
      [] OTHER -> x = y \/ Lt(x, y)

Gt(x, y) == Lt(y, x)
Ge(x, y) == Le(y, x)

Square(x) == Mul(x, x)

\* torch.sqrt: the multiple of 1/SqrtScale nearest the root (the root itself
\* when it is one); nan for a negative argument.
Sqrt(x) ==
    CASE x.k = "nan" \/ x.k = "ninf" -> NaN
      [] x.k = "pinf" -> PInf
      [] OTHER ->
            IF x.n < 0 THEN NaN
            ELSE LET top == SqrtScale * (x.n + 1)
                     j == CHOOSE i \in 0..top :
                            /\ (2 * i - 1) * (2 * i - 1) * x.d
                                    <= 4 * SqrtScale * SqrtScale * x.n \/ i = 0
                            /\ (2 * i + 1) * (2 * i + 1) * x.d
                                    > 4 * SqrtScale * SqrtScale * x.n
                 IN  Fin(j, SqrtScale)

\* torch.log, symbolic: the result of kind "fin" stands for log(n/d).
Log(x) ==
    CASE x.k = "nan" \/ x.k = "ninf" -> NaN
      [] x.k = "pinf" -> PInf
      [] OTHER -> IF x.n < 0 THEN NaN ELSE IF x.n = 0 THEN NInf ELSE x

\* a + b and a - b of two logarithms
LogAdd(a, b) ==
    CASE a.k = "nan" \/ b.k = "nan" -> NaN
      [] IsFin(a) /\ IsFin(b) -> Fin(a.n * b.n, a.d * b.d)
      [] IsFin(a) -> b
      [] IsFin(b) -> a
      [] OTHER -> IF a.k = b.k THEN a ELSE NaN

LogNeg(a) == CASE a.k = "fin" -> Fin(a.d, a.n)
               [] a.k = "pinf" -> NInf
               [] a.k = "ninf" -> PInf
               [] OTHER -> NaN

LogSub(a, b) == LogAdd(a, LogNeg(b))

\* ---- tensors -------------------------------------------------------------
Tensor(shape, data) == [shape |-> shape, data |-> data]
NoTensor == [shape |-> <<-1>>, data |-> <<>>]
Numel(shape) == IF shape = <<>> THEN 1 ELSE shape[1]

\* Tensor.expand(shape): sizes of one stretch, equal sizes stay, anything
\* else is a shape error.
CanExpand(shape, to) ==
    \/ shape = <<>>
    \/ shape # <<>> /\ to # <<>> /\ (shape[1] = 1 \/ shape[1] = to[1])

TensorExpand(t, to) ==
    Tensor(to, [i \in 1..Numel(to) |-> IF Len(t.data) = 1 THEN t.data[1] ELSE t.data[i]])

\* the arguments a caller passes to the constructor: a Python Number or a
\* one-dimensional tensor
Number(v) == [isnum |-> TRUE, shape |-> <<>>, data |-> <<v>>]
AsArg(t) == [isnum |-> FALSE, shape |-> t.shape, data |-> t.data]

\* torch.distributions.utils.broadcast_all: the common shape, or none
BroadcastShape(a, b, c) ==
    LET dims == {s \in {a.shape, b.shape, c.shape} : s # <<>>}
        lens == {s[1] : s \in dims}
        big == lens \ {1}
    IN  IF dims = {} THEN <<>>
        ELSE IF big = {} THEN <<1>>
        ELSE IF Cardinality(big) = 1 THEN <<CHOOSE n \in big : TRUE>>
        ELSE <<-1>>

\* torch.where on one element
Where(cond, a, b) == IF cond THEN a ELSE b

\* ---- class Triangular ----------------------------------------------------
NoInst == [id |-> 0, low |-> NoTensor, high |-> NoTensor, peak |-> NoTensor,
           batch_shape |-> <<-1>>, dict_validate_args |-> "unset"]

\* self._validate_args: the instance attribute when __init__ or expand set
\* it, else the class attribute Distribution._validate_args
validate_args_of(inst, default) ==
    CASE inst.dict_validate_args = "True" -> TRUE
      [] inst.dict_validate_args = "False" -> FALSE
      [] inst.dict_validate_args = "None" -> FALSE
      [] OTHER -> default

\* torch.lt(a, b).all() and torch.le(a, b).all()
AllLt(a, b) == \A i \in 1..Len(a.data) : Lt(a.data[i], b.data[i])
AllLe(a, b) == \A i \in 1..Len(a.data) : Le(a.data[i], b.data[i])

AnyLt(a, b) == \E i \in 1..Len(a.data) : Lt(a.data[i], b.data[i])
AnyLe(a, b) == \E i \in 1..Len(a.data) : Le(a.data[i], b.data[i])

\* validate with .any() in place of .all()
validate_any(l, h, p) ==
    IF ~AnyLt(l, h)
    THEN "ValueError: Triangular is not defined when low >= high"
    ELSE IF ~AnyLe(l, p)
    THEN "ValueError: Triangular is not defined when peak < low"
    ELSE IF ~AnyLe(p, h)
    THEN "ValueError: Triangular is not defined when peak > high"
    ELSE "none"

\* Triangular.__init__, the checks made when self._validate_args holds: the
\* error raised, or "none"
validate(l, h, p) ==
    IF ~AllLt(l, h)
    THEN "ValueError: Triangular is not defined when low >= high"
    ELSE IF ~AllLe(l, p)
    THEN "ValueError: Triangular is not defined when peak < low"
    ELSE IF ~AllLe(p, h)
    THEN "ValueError: Triangular is not defined when peak > high"
    ELSE "none"

\* Triangular.__init__: [inst, err]
init(id, low, high, peak, validate_args, default) ==
    LET shape == BroadcastShape(low, high, peak)
        l == TensorExpand(low, shape)
        h == TensorExpand(high, shape)
        p == TensorExpand(peak, shape)
        batch_shape == IF low.isnum /\ high.isnum /\ peak.isnum THEN <<>> ELSE l.shape
        inst == [id |-> id, low |-> l, high |-> h, peak |-> p,
                 batch_shape |-> batch_shape,
                 dict_validate_args |->
                     IF validate_args # "None" THEN validate_args ELSE "unset"]
        raised == IF validate_args_of(inst, default) THEN validate(l, h, p) ELSE "none"
    IN  IF shape = <<-1>> THEN [inst |-> NoInst, err |-> "RuntimeError"]
        ELSE IF raised # "none" THEN [inst |-> NoInst, err |-> raised]
        ELSE [inst |-> inst, err |-> "none"]

\* mean with the division applied to peak alone
mean_elem_prec(low, high, peak) == Add(Add(low, high), Div(peak, Num(3)))

mean_elem(low, high, peak) == Div(Add(Add(low, high), peak), Num(3))

variance_elem(low, high, peak) ==
    Div(Sub(Sub(Sub(Add(Add(Square(low), Square(high)), Square(peak)),
                    Mul(low, high)), Mul(low, peak)), Mul(high, peak)),
        Num(18))

\* rsample without the square root in the left leg
rsample_elem_nosqrt(low, high, peak, samples) ==
    LET interval_length == Sub(high, low)
    IN  Where(Lt(samples, Div(Sub(peak, low), interval_length)),
              Add(low, Mul(Mul(samples, interval_length), Sub(peak, low))),
              Sub(high, Sqrt(Mul(Mul(Sub(Num(1), samples), interval_length),
                                 Sub(high, peak)))))

\* rsample with samples in place of 1. - samples in the right leg
rsample_elem_right(low, high, peak, samples) ==
    LET interval_length == Sub(high, low)
    IN  Where(Lt(samples, Div(Sub(peak, low), interval_length)),
              Add(low, Sqrt(Mul(Mul(samples, interval_length), Sub(peak, low)))),
              Sub(high, Sqrt(Mul(Mul(samples, interval_length), Sub(high, peak)))))

rsample_elem(low, high, peak, samples) ==
    LET interval_length == Sub(high, low)
    IN  Where(Lt(samples, Div(Sub(peak, low), interval_length)),
              Add(low, Sqrt(Mul(Mul(samples, interval_length), Sub(peak, low)))),
              Sub(high, Sqrt(Mul(Mul(Sub(Num(1), samples), interval_length),
                                 Sub(high, peak)))))

\* log_prob with the floor taken at the limits too
log_prob_elem_closed(low, high, peak, value) ==
    LET interval_length == Sub(high, low)
        inside_interval ==
            Where(Ge(value, low) /\ Le(value, peak),
                  LogSub(LogSub(LogAdd(Log(Num(2)), Log(Sub(value, low))),
                                Log(interval_length)),
                         Log(Sub(peak, low))),
                  LogSub(LogSub(LogAdd(Log(Num(2)), Log(Sub(high, value))),
                                Log(interval_length)),
                         Log(Sub(high, peak))))
    IN  Where(Le(value, low) \/ Ge(value, high),
              Log(Mul(Num(1), Fin(1, 1000000))),
              inside_interval)

log_prob_elem(low, high, peak, value) ==
    LET interval_length == Sub(high, low)
        inside_interval ==
            Where(Ge(value, low) /\ Le(value, peak),
                  LogSub(LogSub(LogAdd(Log(Num(2)), Log(Sub(value, low))),
                                Log(interval_length)),
                         Log(Sub(peak, low))),
                  LogSub(LogSub(LogAdd(Log(Num(2)), Log(Sub(high, value))),
                                Log(interval_length)),
                         Log(Sub(high, peak))))
    IN  Where(Lt(value, low) \/ Gt(value, high),
              Log(Mul(Num(1), Fin(1, 1000000))),
              inside_interval)

\* cdf with the two clamps applied in the other order
cdf_elem_swapped(low, high, peak, value) ==
    LET interval_length == Sub(high, low)
        inside_interval ==
            Where(Gt(value, low) /\ Le(value, peak),
                  Div(Square(Sub(value, low)), Mul(interval_length, Sub(peak, low))),
                  Sub(Num(1), Div(Square(Sub(high, value)),
                                  Mul(interval_length, Sub(high, peak)))))
        above_high == Where(Ge(value, high), Num(1), inside_interval)
    IN  Where(Le(value, low), Num(0), above_high)

\* cdf with 1 + in place of 1 - in the right leg
cdf_elem_plus(low, high, peak, value) ==
    LET interval_length == Sub(high, low)
        inside_interval ==
            Where(Gt(value, low) /\ Le(value, peak),
                  Div(Square(Sub(value, low)), Mul(interval_length, Sub(peak, low))),
                  Add(Num(1), Div(Square(Sub(high, value)),
                                  Mul(interval_length, Sub(high, peak)))))
        below_low == Where(Le(value, low), Num(0), inside_interval)
    IN  Where(Ge(value, high), Num(1), below_low)

cdf_elem(low, high, peak, value) ==
    LET interval_length == Sub(high, low)
        inside_interval ==
            Where(Gt(value, low) /\ Le(value, peak),
                  Div(Square(Sub(value, low)), Mul(interval_length, Sub(peak, low))),
                  Sub(Num(1), Div(Square(Sub(high, value)),
                                  Mul(interval_length, Sub(high, peak)))))
        below_low == Where(Le(value, low), Num(0), inside_interval)
    IN  Where(Ge(value, high), Num(1), below_low)

\* the methods on tensors: elementwise over the batch, a value of shape ()
\* broadcast against it
Bcast(v, i) == IF Len(v.data) = 1 THEN v.data[1] ELSE v.data[i]

rsample(inst, samples) ==
    Tensor(inst.low.shape,
           [i \in 1..Len(inst.low.data) |->
               rsample_elem(inst.low.data[i], inst.high.data[i], inst.peak.data[i],
                            Bcast(samples, i))])

log_prob(inst, value) ==
    Tensor(inst.low.shape,
           [i \in 1..Len(inst.low.data) |->
               log_prob_elem(inst.low.data[i], inst.high.data[i], inst.peak.data[i],
                             Bcast(value, i))])

cdf(inst, value) ==
    Tensor(inst.low.shape,
           [i \in 1..Len(inst.low.data) |->
               cdf_elem(inst.low.data[i], inst.high.data[i], inst.peak.data[i],
                        Bcast(value, i))])

mean(inst) ==
    Tensor(inst.low.shape,
           [i \in 1..Len(inst.low.data) |->
               mean_elem(inst.low.data[i], inst.high.data[i], inst.peak.data[i])])

variance(inst) ==
    Tensor(inst.low.shape,
           [i \in 1..Len(inst.low.data) |->
               variance_elem(inst.low.data[i], inst.high.data[i], inst.peak.data[i])])

\* expand with peak expanded from self.high
expand_peak(inst, batch_shape, id) ==
    IF ~CanExpand(inst.low.shape, batch_shape)
    THEN [inst |-> NoInst, err |-> "RuntimeError"]
    ELSE LET low == AsArg(TensorExpand(inst.low, batch_shape))
             high == AsArg(TensorExpand(inst.high, batch_shape))
             peak == AsArg(TensorExpand(inst.high, batch_shape))
             made == init(id, low, high, peak, "False", FALSE)
             got == IF inst.dict_validate_args = "unset" THEN "None"
                    ELSE inst.dict_validate_args
         IN  IF made.err # "none" THEN made
             ELSE [inst |-> [made.inst EXCEPT !.dict_validate_args = got],
                   err |-> "none"]

\* Triangular.expand, the NotImplementedError branch: [inst, err]
expand(inst, batch_shape, id) ==
    IF ~CanExpand(inst.low.shape, batch_shape)
    THEN [inst |-> NoInst, err |-> "RuntimeError"]
    ELSE LET low == AsArg(TensorExpand(inst.low, batch_shape))
             high == AsArg(TensorExpand(inst.high, batch_shape))
             peak == AsArg(TensorExpand(inst.peak, batch_shape))
             made == init(id, low, high, peak, "False", FALSE)
             got == IF inst.dict_validate_args = "unset" THEN "None"
                    ELSE inst.dict_validate_args
         IN  IF made.err # "none" THEN made
             ELSE [inst |-> [made.inst EXCEPT !.dict_validate_args = got],
                   err |-> "none"]

\* ---- the state machine ---------------------------------------------------
\* default_validate_args: the class attribute Distribution._validate_args
\* self: the constructed instance; op, args, ret, result, err: the last call,
\* its arguments, the tensor or the instance it returned, the error it raised
\* pc: the caller's position: "new" before the constructor call, "live" when
\* it returned an instance, "failed" when it raised, "done" after the method
\* call made on the instance
VARIABLES default_validate_args, self, op, args, ret, result, err, pc

vars == <<default_validate_args, self, op, args, ret, result, err, pc>>

Shapes == {<<>>} \cup {<<n>> : n \in BatchLens}
TensorsOver(shape, S) == {Tensor(shape, data) : data \in [1..Numel(shape) -> S]}
Nums(S) == {Num(i) : i \in S}
Args(S) == {Number(v) : v \in Nums(S)}
           \cup UNION {{AsArg(t) : t \in TensorsOver(<<n>>, Nums(S))} : n \in BatchLens}
ValVals == {Fin(i, ValDen) : i \in (-ValDen - 1)..(MaxParam * ValDen + 1)}
UVals == {Fin(i, UDen) : i \in 0..(UDen - 1)}

Init ==
    /\ default_validate_args \in BOOLEAN
    /\ self = NoInst
    /\ op = "none"
    /\ args = <<>>
    /\ ret = NoTensor
    /\ result = NoInst
    /\ err = "none"
    /\ pc = "new"

Construct ==
    /\ pc = "new"
    /\ \E low \in Args(LowVals), high \in Args(HighVals), peak \in Args(PeakVals),
          validate_args \in {"None", "True", "False"} :
          LET made == init(1, low, high, peak, validate_args, default_validate_args)
          IN  /\ args' = <<low, high, peak, validate_args>>
              /\ self' = made.inst
              /\ err' = made.err
              /\ pc' = IF made.err = "none" THEN "live" ELSE "failed"
    /\ op' = "__init__"
    /\ UNCHANGED <<default_validate_args, ret, result>>

Live == pc = "live"

Rsample ==
    /\ Live
    /\ \E samples \in TensorsOver(self.low.shape, UVals) :
          /\ args' = <<samples>>
          /\ ret' = rsample(self, samples)
    /\ op' = "rsample"
    /\ err' = "none"
    /\ result' = NoInst
    /\ pc' = "done"
    /\ UNCHANGED <<default_validate_args, self>>

LogProb ==
    /\ Live
    /\ \E value \in TensorsOver(<<>>, ValVals) :
          /\ args' = <<value>>
          /\ ret' = log_prob(self, value)
    /\ op' = "log_prob"
    /\ err' = "none"
    /\ result' = NoInst
    /\ pc' = "done"
    /\ UNCHANGED <<default_validate_args, self>>

Cdf ==
    /\ Live
    /\ \E value \in TensorsOver(<<>>, ValVals) :
          /\ args' = <<value>>
          /\ ret' = cdf(self, value)
    /\ op' = "cdf"
    /\ err' = "none"
    /\ result' = NoInst
    /\ pc' = "done"
    /\ UNCHANGED <<default_validate_args, self>>

Mean ==
    /\ Live
    /\ op' = "mean"
    /\ args' = <<>>
    /\ ret' = mean(self)
    /\ err' = "none"
    /\ result' = NoInst
    /\ pc' = "done"
    /\ UNCHANGED <<default_validate_args, self>>

Variance ==
    /\ Live
    /\ op' = "variance"
    /\ args' = <<>>
    /\ ret' = variance(self)
    /\ err' = "none"
    /\ result' = NoInst
    /\ pc' = "done"
    /\ UNCHANGED <<default_validate_args, self>>

\* torch.log(2.) is handed a Python float, not a tensor: the call raises
\* TypeError before the rest of the expression is evaluated.
Entropy ==
    /\ Live
    /\ op' = "entropy"
    /\ args' = <<>>
    /\ ret' = NoTensor
    /\ err' = "TypeError"
    /\ result' = NoInst
    /\ pc' = "done"
    /\ UNCHANGED <<default_validate_args, self>>

Expand ==
    /\ Live
    /\ \E batch_shape \in Shapes :
          LET made == expand(self, batch_shape, self.id + 1)
          IN  /\ args' = <<batch_shape>>
              /\ result' = made.inst
              /\ err' = made.err
    /\ op' = "expand"
    /\ ret' = NoTensor
    /\ pc' = "done"
    /\ UNCHANGED <<default_validate_args, self>>

Next ==
    \/ Construct
    \/ Rsample
    \/ LogProb
    \/ Cdf
    \/ Mean
    \/ Variance
    \/ Entropy
    \/ Expand

Spec == Init /\ [][Next]_vars

\* ---- properties ----------------------------------------------------------
N == Len(self.low.data)
Low(i) == self.low.data[i]
High(i) == self.high.data[i]
Peak(i) == self.peak.data[i]

ValidElem(l, h, p) == Lt(l, h) /\ Le(l, p) /\ Le(p, h)
Valid(inst) ==
    \A i \in 1..Len(inst.low.data) :
        ValidElem(inst.low.data[i], inst.high.data[i], inst.peak.data[i])

\* the constructor's arguments, element i after broadcasting
ArgLen == LET lens == {Len(args[j].data) : j \in 1..3}
          IN  CHOOSE n \in lens : \A m \in lens : m <= n
ArgElem(j, i) == IF Len(args[j].data) = 1 THEN args[j].data[1] ELSE args[j].data[i]
ArgElemValid(i) ==
    /\ ArgElem(1, i).n < ArgElem(2, i).n
    /\ ArgElem(1, i).n <= ArgElem(3, i).n
    /\ ArgElem(3, i).n <= ArgElem(2, i).n
ValidationOn == args[4] = "True" \/ (args[4] = "None" /\ default_validate_args)
ValueErrors == {"ValueError: Triangular is not defined when low >= high",
                "ValueError: Triangular is not defined when peak < low",
                "ValueError: Triangular is not defined when peak > high"}

\* C1: with validation enabled the constructor returns an instance if and
\* only if every batch element has low < high, low <= peak and peak <= high;
\* otherwise it raises a ValueError and no instance is returned.
C1_Thm ==
    (op = "__init__" /\ ValidationOn /\ err # "RuntimeError") =>
        /\ (self # NoInst /\ err = "none") <=> (\A i \in 1..ArgLen : ArgElemValid(i))
        /\ (\E i \in 1..ArgLen : ~ArgElemValid(i)) =>
               (self = NoInst /\ err \in ValueErrors)

C1_Wit ==
    /\ op = "__init__" /\ ValidationOn
    /\ ArgLen = 2 /\ ArgElemValid(1) /\ ~ArgElemValid(2)
    /\ self = NoInst /\ err \in ValueErrors

\* C2: for valid parameters cdf(low) is 0 and cdf(high) is 1, also when peak
\* is low or high; for any parameters the clamp to 1 at value >= high wins
\* over the clamp to 0 at value <= low, which wins over the interior value.
C2_Thm ==
    op = "cdf" =>
        \A i \in 1..N :
            LET value == args[1].data[1]
            IN  /\ Valid(self) /\ value = Low(i) => ret.data[i] = Num(0)
                /\ Valid(self) /\ value = High(i) => ret.data[i] = Num(1)
                /\ Ge(value, High(i)) => ret.data[i] = Num(1)
                /\ Le(value, Low(i)) /\ ~Ge(value, High(i)) => ret.data[i] = Num(0)

C2_Wit ==
    /\ op = "cdf" /\ Valid(self)
    /\ \E i \in 1..N : args[1].data[1] = Low(i) /\ Low(i) = Peak(i)
                       /\ ret.data[i] = Num(0)
    /\ \E i \in 1..N : args[1].data[1] = High(i) /\ High(i) = Peak(i)
                       /\ ret.data[i] = Num(1)

\* C3: for valid parameters cdf lies in [0, 1] and is non-decreasing on
\* [low, high]: cdf(x) <= cdf(y) whenever low <= x <= y <= high.
C3_Thm ==
    (op = "cdf" /\ Valid(self)) =>
        \A i \in 1..N :
            LET x == args[1].data[1]
            IN  /\ Le(Num(0), ret.data[i]) /\ Le(ret.data[i], Num(1))
                /\ \A y \in ValVals :
                      (Le(Low(i), x) /\ Le(x, y) /\ Le(y, High(i))) =>
                          Le(ret.data[i], cdf_elem(Low(i), High(i), Peak(i), y))

C3_Wit ==
    /\ op = "cdf" /\ Valid(self)
    /\ \E i \in 1..N :
          /\ Lt(Low(i), Peak(i)) /\ Lt(Peak(i), High(i))
          /\ args[1].data[1] = Peak(i)
          /\ \E y \in ValVals : Lt(Peak(i), y) /\ Lt(y, High(i))
    /\ \E i \in 1..N : Low(i) = Peak(i) \/ Peak(i) = High(i)

\* C4: log_prob is log(1e-6) when value < low or value > high; at low, at
\* high and between them it is the interior expression, the leg of
\* low <= value <= peak when value <= peak and the other leg otherwise.
LogDensity(a, b, c) == LogSub(LogSub(LogAdd(Log(Num(2)), Log(a)), Log(b)), Log(c))

C4_Thm ==
    op = "log_prob" =>
        \A i \in 1..N :
            LET value == args[1].data[1]
                outside == Lt(value, Low(i)) \/ Gt(value, High(i))
            IN  /\ outside => ret.data[i] = Fin(1, 1000000)
                /\ (~outside /\ Le(value, Peak(i))) =>
                       ret.data[i] = LogDensity(Sub(value, Low(i)),
                                                Sub(High(i), Low(i)),
                                                Sub(Peak(i), Low(i)))
                /\ (~outside /\ ~Le(value, Peak(i))) =>
                       ret.data[i] = LogDensity(Sub(High(i), value),
                                                Sub(High(i), Low(i)),
                                                Sub(High(i), Peak(i)))

C4_Wit ==
    /\ op = "log_prob" /\ Valid(self)
    /\ \E i \in 1..N : args[1].data[1] = Low(i) /\ ret.data[i] # Fin(1, 1000000)
    /\ \E i \in 1..N : Lt(args[1].data[1], Low(i)) /\ ret.data[i] = Fin(1, 1000000)

\* C5: after expand the new instance's validation flag equals the original's,
\* whether the original's was requested explicitly or taken from the default.
C5_Claim ==
    (op = "expand" /\ err = "none") =>
        validate_args_of(result, default_validate_args)
            = validate_args_of(self, default_validate_args)

\* C6: expand returns a new instance whose low, high and peak elements equal
\* the original elements they are broadcast from, so that cdf and log_prob of
\* the new instance replicate the original's; the original is unchanged.
From(inst, i) == IF Len(inst.low.data) = 1 THEN 1 ELSE i

Replicates(orig, new, shape) ==
    /\ new.id # orig.id
    /\ new.batch_shape = shape
    /\ new.low.shape = shape /\ new.high.shape = shape /\ new.peak.shape = shape
    /\ \A i \in 1..Numel(shape) :
          /\ new.low.data[i] = orig.low.data[From(orig, i)]
          /\ new.high.data[i] = orig.high.data[From(orig, i)]
          /\ new.peak.data[i] = orig.peak.data[From(orig, i)]
          /\ \A v \in TensorsOver(<<>>, ValVals) :
                /\ cdf(new, v).data[i] = cdf(orig, v).data[From(orig, i)]
                /\ log_prob(new, v).data[i] = log_prob(orig, v).data[From(orig, i)]

C6_Thm ==
    [][(op' = "expand" /\ err' = "none") =>
           (self' = self /\ Replicates(self, result', args'[1]))]_vars

C6_Wit ==
    /\ op = "expand" /\ err = "none"
    /\ Len(self.low.data) = 1 /\ Len(result.low.data) = 2
    /\ self.peak.data[1] # self.high.data[1]

\* C7: rsample takes the left leg exactly when u < (peak-low)/(high-low) and
\* the right leg otherwise; with peak = low and u = 0 the result is low, and
\* with peak = high every result is a finite value at or below high.
C7_Thm ==
    (op = "rsample" /\ Valid(self)) =>
        \A i \in 1..N :
            LET u == args[1].data[i]
                L == Sub(High(i), Low(i))
                c == Div(Sub(Peak(i), Low(i)), L)
            IN  /\ Lt(u, c) =>
                       ret.data[i] = Add(Low(i), Sqrt(Mul(Mul(u, L), Sub(Peak(i), Low(i)))))
                /\ ~Lt(u, c) =>
                       ret.data[i] = Sub(High(i), Sqrt(Mul(Mul(Sub(Num(1), u), L),
                                                           Sub(High(i), Peak(i)))))
                /\ Peak(i) = Low(i) => ~Lt(u, c)
                /\ (Peak(i) = Low(i) /\ u = Num(0)) => ret.data[i] = Low(i)
                /\ Peak(i) = High(i) => (IsFin(ret.data[i]) /\ Le(ret.data[i], High(i)))

C7_Wit ==
    /\ op = "rsample" /\ Valid(self)
    /\ \E i \in 1..N : Peak(i) = Low(i) /\ args[1].data[i] = Num(0)
                       /\ ret.data[i] = Low(i)
    /\ \E i \in 1..N : Peak(i) = High(i) /\ args[1].data[i] # Num(0)

\* C8: for valid parameters the mean lies within [low, high].
C8_Thm ==
    (op = "mean" /\ Valid(self)) =>
        \A i \in 1..N : Le(Low(i), ret.data[i]) /\ Le(ret.data[i], High(i))

C8_Wit ==
    /\ op = "mean" /\ Valid(self)
    /\ \E i \in 1..N : Peak(i) = High(i) /\ Lt(ret.data[i], High(i))
    /\ \E i \in 1..N : Peak(i) = Low(i) /\ Lt(Low(i), ret.data[i])

\* C9: accessing entropy on a validly constructed instance does not fail and
\* yields a value for every batch element.
C9_Claim ==
    (op = "entropy" /\ Valid(self)) =>
        (err = "none" /\ ret # NoTensor /\ ret.shape = self.low.shape)

\* the radicand of the leg rsample selects, and whether its root is exact
Radicand(l, h, p, u) ==
    IF Lt(u, Div(Sub(p, l), Sub(h, l)))
    THEN Mul(Mul(u, Sub(h, l)), Sub(p, l))
    ELSE Mul(Mul(Sub(Num(1), u), Sub(h, l)), Sub(h, p))
RootExact(x) == Square(Sqrt(x)) = x

====
